---- MODULE Spec2Model ----
(***************************************************************************)
(* Model of RSSBot (src/bot.py): the polling loop check_feeds, the feed    *)
(* fetch, the category routing and the per-source dedup watermark kept in  *)
(* last_post_times by process_feed_entries.                                *)
(*                                                                         *)
(* Timestamps are naturals (the order of the UTC datetimes built from the  *)
(* feed's time tuples); None is the integer -1.                            *)
(***************************************************************************)
EXTENDS Integers, Sequences, FiniteSets, TLC

\* ---- bounds of the model ----
MaxCycles == 2          \* runs of check_feeds that are started
NumEntries == 3         \* distinct entries a feed can contain
MaxFeedLen == 2         \* entries in one fetched feed

\* ---- values of the program ----
None == -1
\* datetime.min.replace(tzinfo=timezone.utc), the default of .get()
DT_MIN == 0
\* feed.entries[:5]
SliceLen == 5

\* config/sources.yml: the configured sources, in order
Sources ==
  << [name |-> "A", url |-> "uA", category |-> "news"],
     [name |-> "B", url |-> "uB", category |-> "misc"],
     [name |-> "C", url |-> "uC", category |-> "tech"] >>

NumSources == Len(Sources)
SourceIds == 1..NumSources
Urls == {Sources[i].url : i \in SourceIds}

\* config/bot_config.yml: category_channels ("misc" has no channel)
category_channels == [c \in {"news", "tech"} |-> IF c = "news" THEN 101 ELSE 102]

\* what load_config can leave in self.config
\*   "none"       : load_config caught an exception and returned None
\*   "badsources" : config['sources']['sources'] raises (sources.yml empty)
\*   "badbot"     : config['bot']['category_channels'] raises (bot_config.yml empty)
\*   "ok"         : both files have the expected structure
Configs == {"none", "badsources", "badbot", "ok"}

\* what can happen while load_config reads the two files
LoadOutcomes == {"raises", "empty_sources", "empty_bot", "loaded"}

\* variant of load_config that falls back to a default configuration
load_config_or_default(o) ==
  IF o = "empty_sources" THEN "badsources"
  ELSE IF o = "empty_bot" THEN "badbot"
  ELSE "ok"

\* RSSBot.load_config: None when anything raised, else the two documents as read
load_config(o) ==
  IF o = "raises" THEN "none"
  ELSE IF o = "empty_sources" THEN "badsources"
  ELSE IF o = "empty_bot" THEN "badbot"
  ELSE "ok"

\* ---- entries ----
EntryIds == 1..NumEntries

\* the entry records the feed library can hand out: an entry with
\* published_parsed, one with an empty published_parsed and an
\* updated_parsed, and one with no usable time field at all
EntryOf(k) ==
  IF k % 3 = 1 THEN
    [id |-> k, has_published |-> TRUE, published_parsed |-> k,
     has_updated |-> FALSE, updated_parsed |-> None]
  ELSE IF k % 3 = 2 THEN
    [id |-> k, has_published |-> TRUE, published_parsed |-> None,
     has_updated |-> TRUE, updated_parsed |-> k]
  ELSE
    [id |-> k, has_published |-> FALSE, published_parsed |-> None,
     has_updated |-> TRUE, updated_parsed |-> None]

Entries == {EntryOf(k) : k \in EntryIds}

RECURSIVE SeqsUpTo(_, _)
\* the sequences without repetition over S, of length at most n
SeqsUpTo(S, n) ==
  IF n = 0 THEN {<<>>}
  ELSE LET shorter == SeqsUpTo(S, n - 1)
       IN shorter \cup
          {Append(s, e) : s \in {t \in shorter : Len(t) = n - 1},
                          e \in S}

NoRepeat(s) == \A a, b \in 1..Len(s) : a # b => s[a] # s[b]

\* the feeds feedparser.parse can return (native order, any order)
Feeds == {s \in SeqsUpTo(Entries, MaxFeedLen) : NoRepeat(s)}

Min(a, b) == IF a < b THEN a ELSE b

Max(a, b) == IF a > b THEN a ELSE b

\* an entry whose published_parsed is time k
TimedEntry(k) ==
  [id |-> k, has_published |-> TRUE, published_parsed |-> k,
   has_updated |-> FALSE, updated_parsed |-> None]

\* ids of all the entries that occur in some feed
SentIds == 1..Max(NumEntries, SliceLen + 1)

RECURSIVE Perms(_)
\* the orderings of the set S
Perms(S) ==
  IF S = {} THEN {<<>>}
  ELSE UNION {{<<e>> \o t : t \in Perms(S \ {e})} : e \in S}

\* three entries at times 1, 2, 3, in every feed order
ThreeFeeds == Perms({TimedEntry(k) : k \in 1..3})

\* one entry more than the slice examines, oldest first, newest first and mixed
LongFeeds ==
  LET n == SliceLen + 1
  IN { [j \in 1..n |-> TimedEntry(j)],
       [j \in 1..n |-> TimedEntry(n + 1 - j)],
       [j \in 1..n |-> TimedEntry(IF j = 1 THEN n ELSE j - 1)] }

\* the feeds the sources serve, by scenario
FeedsIn(sc) ==
  IF sc = "any" THEN Feeds
  ELSE IF sc = "short" THEN {f \in Feeds : Len(f) <= 1}
  ELSE IF sc = "three" THEN ThreeFeeds
  ELSE LongFeeds

\* ---- pure helpers of the code ----

\* variant of parse_entry_time that falls back to the current time, as
\* create_feed_embed does for the embed's timestamp
parse_entry_time_or_now(entry) ==
  IF entry.has_published /\ entry.published_parsed # None
    THEN entry.published_parsed
  ELSE IF entry.has_updated /\ entry.updated_parsed # None
    THEN entry.updated_parsed
  ELSE NumEntries + 1

\* RSSBot.parse_entry_time: the first of published_parsed, updated_parsed
\* that the entry has and that is non-empty; None when there is none
parse_entry_time(entry) ==
  IF entry.has_published /\ entry.published_parsed # None
    THEN entry.published_parsed
  ELSE IF entry.has_updated /\ entry.updated_parsed # None
    THEN entry.updated_parsed
  ELSE None

\* variant of the lookup that falls back to a default channel
ChannelIdOrDefault(source) ==
  IF source.category \in DOMAIN category_channels
    THEN category_channels[source.category]
    ELSE 101

\* config['bot']['category_channels'].get(source['category'])
ChannelIdOf(source) ==
  IF source.category \in DOMAIN category_channels
    THEN category_channels[source.category]
    ELSE None

\* variant of the comparison that also takes an entry at the watermark
IsNewOrEqual(published, last) == published # None /\ published >= last

\* line 161: published and published > last_post_time
IsNew(published, last) == published # None /\ published > last

\* feed.entries[:5]
Batch(f) == SubSeq(f, 1, Min(SliceLen, Len(f)))

\* the for loop of check_feeds moves to the next source, or the run returns
NextSource(i) ==
  IF i < NumSources THEN [pc |-> "fetch", idx |-> i + 1]
                    ELSE [pc |-> "idle", idx |-> 0]

\* variant in which the exception leaves the for loop and reaches the outer
\* except of check_feeds
OnSourceErrorAbort(i) == [pc |-> "idle", idx |-> 0]

\* the except clause inside the for loop: log, then fall through to the sleep
OnSourceError(i) == [pc |-> "sleep", idx |-> i]

\* variant in which the try is inside the for loop of process_feed_entries:
\* the loop goes on with the next entry
AfterSendErrorContinue(e) == [pc |-> "entries", eidx |-> e + 1]

\* the except of line 171 is outside the for loop: the loop is left and
\* process_feed_entries returns
AfterSendError(e) == [pc |-> "sleep", eidx |-> e]

\* variant without the outer except: the exception ends the loop task
OnRunErrorFatal == [pc |-> "dead", idx |-> 0]

\* the outer except of check_feeds (line 136): log, the run returns
OnRunError == [pc |-> "idle", idx |-> 0]

\* ---- state ----
VARIABLES
  loadOutcome,      \* what happened in load_config (fixed by Init)
  scenario,         \* which feeds the sources serve (fixed by Init)
  config,           \* self.config, one of Configs
  started,          \* setup_hook has called check_feeds.start()
  due,              \* the loop's interval has elapsed since the last run began
  inflight,         \* runs of check_feeds begun and not yet returned
  cycle,            \* runs of check_feeds begun so far
  pc,               \* position of the loop task: idle, fetch, route, entries, sleep
  idx,              \* index in Sources of the source being handled (0: none)
  feed,             \* entries of the feed fetched for the current source
  eidx,             \* position of the for loop over feed.entries[:5]
  last_post_time,   \* the local read once at line 155
  last_post_times,  \* self.last_post_times: url -> timestamp (a dict)
  sentCount,        \* history: sentCount[i][k] successful sends of entry k for source i
  runSends,         \* history: successful sends per source in the current run
  outcome,          \* history: how each source's handling ended in the current run
  lastFeed,         \* history: {feed} of the previous run's batch if it sent everything
  sameAsPrev,       \* history: the current feed equals that previous feed
  recordFeeds,      \* history: whether lastFeed is being recorded (fixed by Init)
  batchSent,        \* history: ids of the entries sent in the current batch, in order
  failedEntry       \* history: id of the entry whose send raised in this batch (0: none)

vars == <<loadOutcome, scenario, config, started, due, inflight, cycle, pc, idx, feed, eidx,
          last_post_time, last_post_times, sentCount, runSends, outcome,
          lastFeed, sameAsPrev, recordFeeds, batchSent, failedEntry>>

histVars == <<sentCount, runSends, outcome, lastFeed, sameAsPrev, recordFeeds,
              batchSent, failedEntry>>

\* self.last_post_times.get(url, datetime.min)
Watermark(url) ==
  IF url \in DOMAIN last_post_times THEN last_post_times[url] ELSE DT_MIN

\* self.last_post_times[url] = published
SetWatermark(url, published) ==
  [u \in (DOMAIN last_post_times) \cup {url} |->
     IF u = url THEN published ELSE last_post_times[u]]

\* variant in which the watermark is written before the send is awaited
StoreBeforeSend(url, published) == SetWatermark(url, published)

\* line 169 is not reached when channel.send raises at line 166
StoreAfterFailedSend(url, published) == last_post_times

\* variant in which the timer alone triggers a run
LoopReadyTimerOnly == started /\ due

\* the loop task is between two runs and its interval has elapsed
LoopReady == started /\ pc = "idle" /\ due

Goto(n) ==
  /\ pc' = n.pc
  /\ idx' = n.idx
  /\ inflight' = IF n.pc = "idle" THEN inflight - 1 ELSE inflight

ClearBatch ==
  /\ feed' = <<>>
  /\ eidx' = 0
  /\ last_post_time' = DT_MIN
  /\ sameAsPrev' = FALSE
  /\ batchSent' = <<>>
  /\ failedEntry' = 0

\* remember what the batch of source i was, for the comparison at the next fetch
RecordFeed(i, S) ==
  lastFeed' = IF recordFeeds THEN [lastFeed EXCEPT ![i] = S] ELSE lastFeed

\* RSSBot.__init__: load_config has run, feed_cache and last_post_times are empty
InitState ==
  /\ loadOutcome \in LoadOutcomes
  /\ config = load_config(loadOutcome)
  /\ started = FALSE
  /\ due = FALSE
  /\ inflight = 0
  /\ cycle = 0
  /\ pc = "idle"
  /\ idx = 0
  /\ feed = <<>>
  /\ eidx = 0
  /\ last_post_time = DT_MIN
  /\ last_post_times = <<>>
  /\ sentCount = [i \in SourceIds |-> [k \in SentIds |-> 0]]
  /\ runSends = [i \in SourceIds |-> 0]
  /\ outcome = [i \in SourceIds |-> "pending"]
  /\ lastFeed = [i \in SourceIds |-> {}]
  /\ sameAsPrev = FALSE
  /\ batchSent = <<>>
  /\ failedEntry = 0

Init == InitState /\ recordFeeds = FALSE /\ scenario = "any"

\* the same program, with the previous feed of every source recorded
InitRepeat == InitState /\ recordFeeds = TRUE /\ scenario = "any"

\* the same program, the sources serving feeds of at most one entry
InitShort == InitState /\ recordFeeds = FALSE /\ scenario = "short"

\* the same program, the sources serving three entries at times 1, 2, 3
InitThree == InitState /\ recordFeeds = FALSE /\ scenario = "three"

\* the same program, the sources serving more entries than the slice examines
InitLong == InitState /\ recordFeeds = FALSE /\ scenario = "long"

\* RSSBot.setup_hook: check_feeds.start(); the first run is due at once
setup_hook ==
  /\ ~started
  /\ started' = TRUE
  /\ due' = TRUE
  /\ UNCHANGED <<loadOutcome, scenario, config, inflight, cycle, pc, idx, feed, eidx, last_post_time,
                 last_post_times, histVars>>

\* @tasks.loop(minutes=30): the interval since the last run's start elapses,
\* whether or not that run has returned
IntervalElapses ==
  /\ started
  /\ ~due
  /\ due' = TRUE
  /\ UNCHANGED <<loadOutcome, scenario, config, started, inflight, cycle, pc, idx, feed, eidx,
                 last_post_time, last_post_times, histVars>>

\* check_feeds is entered (lines 105-110)
StartRun ==
  /\ LoopReady
  /\ cycle < MaxCycles
  /\ cycle' = cycle + 1
  /\ due' = FALSE
  /\ outcome' = [i \in SourceIds |-> "pending"]
  /\ runSends' = [i \in SourceIds |-> 0]
  /\ ClearBatch
  /\ IF config = "none" \/ NumSources = 0
       THEN \* "No configuration loaded" and return
            /\ pc' = "idle"
            /\ idx' = 0
            /\ inflight' = inflight
       ELSE IF config = "badsources"
       THEN \* config['sources']['sources'] raises
            /\ pc' = OnRunError.pc
            /\ idx' = OnRunError.idx
            /\ inflight' = inflight
       ELSE /\ pc' = "fetch"
            /\ idx' = 1
            /\ inflight' = inflight + 1
  /\ UNCHANGED <<loadOutcome, scenario, config, started, last_post_times, sentCount, lastFeed, recordFeeds>>

\* fetch_feed (lines 113-116, 139-149): a bozo feed or an exception gives
\* None and the source is skipped with continue
FetchFails ==
  /\ pc = "fetch"
  /\ outcome' = [outcome EXCEPT ![idx] = "fetch_failed"]
  /\ RecordFeed(idx, {})
  /\ ClearBatch
  /\ Goto(NextSource(idx))
  /\ UNCHANGED <<loadOutcome, scenario, config, started, due, cycle, last_post_times, sentCount, runSends,
                 recordFeeds>>

FetchOk ==
  /\ pc = "fetch"
  /\ \E f \in FeedsIn(scenario) :
       /\ feed' = f
       /\ sameAsPrev' = (f \in lastFeed[idx])
  /\ pc' = "route"
  /\ UNCHANGED <<loadOutcome, scenario, config, started, due, inflight, cycle, idx, eidx, last_post_time,
                 last_post_times, sentCount, runSends, outcome, lastFeed,
                 recordFeeds, batchSent, failedEntry>>

\* lines 119-128: the channel of the source's category; process_feed_entries
\* is entered and reads last_post_time (line 155)
Route ==
  /\ pc = "route"
  /\ LET source == Sources[idx]
         channel_id == ChannelIdOf(source)
     IN IF config = "badbot"
          THEN \* the lookup raises, the except of line 130 logs it
               /\ outcome' = [outcome EXCEPT ![idx] = "lookup_raised"]
               /\ RecordFeed(idx, {})
               /\ Goto(OnSourceError(idx))
               /\ ClearBatch
        ELSE IF channel_id = None
          THEN /\ outcome' = [outcome EXCEPT ![idx] = "no_route"]
               /\ RecordFeed(idx, {})
               /\ Goto(NextSource(idx))
               /\ ClearBatch
        ELSE \/ \* get_channel does not know the channel
                /\ outcome' = [outcome EXCEPT ![idx] = "unresolved"]
                /\ RecordFeed(idx, {})
                /\ Goto(NextSource(idx))
                /\ ClearBatch
             \/ /\ last_post_time' = Watermark(source.url)
                /\ eidx' = 1
                /\ pc' = "entries"
                /\ UNCHANGED <<idx, inflight, outcome, lastFeed, feed, sameAsPrev,
                               batchSent, failedEntry>>
  /\ UNCHANGED <<loadOutcome, scenario, config, started, due, cycle, last_post_times, sentCount,
                 runSends, recordFeeds>>

\* one iteration of the for loop of process_feed_entries (lines 157-169)
ProcessEntry ==
  /\ pc = "entries"
  /\ eidx <= Len(Batch(feed))
  /\ LET source == Sources[idx]
         entry == Batch(feed)[eidx]
         published == parse_entry_time(entry)
     IN IF IsNew(published, last_post_time)
          THEN \/ \* channel.send returns
                  /\ last_post_times' = SetWatermark(source.url, published)
                  /\ sentCount' = [sentCount EXCEPT ![idx][entry.id] = @ + 1]
                  /\ runSends' = [runSends EXCEPT ![idx] = @ + 1]
                  /\ batchSent' = Append(batchSent, entry.id)
                  /\ eidx' = eidx + 1
                  /\ UNCHANGED <<pc, outcome, lastFeed, failedEntry>>
               \/ \* channel.send raises, the except of line 171 logs it
                  /\ failedEntry' = entry.id
                  /\ outcome' = [outcome EXCEPT ![idx] = "send_failed"]
                  /\ RecordFeed(idx, {})
                  /\ pc' = AfterSendError(eidx).pc
                  /\ eidx' = AfterSendError(eidx).eidx
                  /\ last_post_times' = StoreAfterFailedSend(source.url, published)
                  /\ UNCHANGED <<sentCount, runSends, batchSent>>
          ELSE /\ eidx' = eidx + 1
               /\ UNCHANGED <<pc, last_post_times, sentCount, runSends, outcome,
                              lastFeed, batchSent, failedEntry>>
  /\ UNCHANGED <<loadOutcome, scenario, config, started, due, inflight, cycle, idx, feed, last_post_time,
                 sameAsPrev, recordFeeds>>

\* the for loop of process_feed_entries is exhausted and the call returns
EndBatch ==
  /\ pc = "entries"
  /\ eidx > Len(Batch(feed))
  /\ outcome' = [outcome EXCEPT ![idx] = "processed"]
  /\ RecordFeed(idx, {feed})
  /\ pc' = "sleep"
  /\ UNCHANGED <<loadOutcome, scenario, config, started, due, inflight, cycle, idx, feed, eidx,
                 last_post_time, last_post_times, sentCount, runSends,
                 sameAsPrev, recordFeeds, batchSent, failedEntry>>

\* await asyncio.sleep(1) (line 134), then the next source
Sleep ==
  /\ pc = "sleep"
  /\ ClearBatch
  /\ Goto(NextSource(idx))
  /\ UNCHANGED <<loadOutcome, scenario, config, started, due, cycle, last_post_times, sentCount,
                 runSends, outcome, lastFeed, recordFeeds>>

Next ==
  \/ setup_hook
  \/ IntervalElapses
  \/ StartRun
  \/ FetchFails
  \/ FetchOk
  \/ Route
  \/ ProcessEntry
  \/ EndBatch
  \/ Sleep

Spec == Init /\ [][Next]_vars

SpecRepeat == InitRepeat /\ [][Next]_vars

SpecThree == InitThree /\ [][Next]_vars

SpecLong == InitLong /\ [][Next]_vars

\* the event loop runs the loop task whenever it can take a step, and the
\* timer of the loop fires
Fairness ==
  /\ WF_vars(setup_hook)
  /\ WF_vars(IntervalElapses)
  /\ WF_vars(StartRun)
  /\ WF_vars(FetchFails \/ FetchOk)
  /\ WF_vars(Route)
  /\ WF_vars(ProcessEntry)
  /\ WF_vars(EndBatch)
  /\ WF_vars(Sleep)

SpecLive == InitShort /\ [][Next]_vars /\ Fairness

TypeOK ==
  /\ config \in Configs
  /\ started \in BOOLEAN
  /\ due \in BOOLEAN
  /\ inflight \in 0..MaxCycles
  /\ cycle \in 0..MaxCycles
  /\ pc \in {"idle", "fetch", "route", "entries", "sleep"}
  /\ idx \in 0..NumSources
  /\ feed \in FeedsIn(scenario) \cup {<<>>}
  /\ DOMAIN last_post_times \subseteq Urls


\* ---- properties ----

UrlOf(i) == Sources[i].url

\* the timestamp the feed gives an entry
TimeOf(k) == parse_entry_time(EntryOf(k))

\* the entry has neither a non-empty published_parsed nor a non-empty updated_parsed
NoTimeField(e) ==
  /\ ~(e.has_published /\ e.published_parsed # None)
  /\ ~(e.has_updated /\ e.updated_parsed # None)

MaxOf(S) == CHOOSE m \in S : \A x \in S : m >= x

\* timestamps of the entries sent in the current batch
BatchSentTimes == {TimeOf(batchSent[j]) : j \in 1..Len(batchSent)}

\* process_feed_entries has returned for the current source
BatchOver == pc = "sleep" /\ outcome[idx] \in {"processed", "send_failed"}

Skipped == {"no_route", "unresolved"}

\* C1: no entry of a source is sent to its channel more than once, over any
\* sequence of poll cycles and any feed ordering.
C1_NoEntrySentTwice ==
  \A i \in SourceIds : \A k \in EntryIds : sentCount[i][k] <= 1

\* C2: the stored watermark of every source never decreases in any step,
\* including between two sends of one batch.
C2_WatermarkMonotonic ==
  [][\A u \in Urls : Watermark(u)' >= Watermark(u)]_vars

\* C3: when the previous cycle sent everything and this cycle's fetch returns
\* the same entries, this cycle sends nothing for that source.
C3_SecondCycleSilent ==
  (BatchOver /\ outcome[idx] = "processed" /\ sameAsPrev) => runSends[idx] = 0

\* C4: after a batch in which at least one entry was sent, the watermark is the
\* maximum timestamp among the entries sent in that batch.
C4_WatermarkIsMaxSent ==
  (BatchOver /\ batchSent # <<>>) => Watermark(UrlOf(idx)) = MaxOf(BatchSentTimes)

\* C5: when the send of entry e fails, the watermark at the end of that batch
\* is strictly less than e's timestamp, so that e is selected again.
C5_FailedEntryStaysNew ==
  (BatchOver /\ outcome[idx] = "send_failed")
     => Watermark(UrlOf(idx)) < TimeOf(failedEntry)

\* C6: an entry with no resolvable timestamp is never sent, whatever the
\* watermark of the source is.
C6_NoTimestampNeverSent ==
  \A i \in SourceIds : \A k \in EntryIds :
     NoTimeField(EntryOf(k)) => sentCount[i][k] = 0

\* an entry without timestamp has been examined in a batch that sent another entry
C6_Witness ==
  /\ pc = "entries"
  /\ eidx > 1
  /\ NoTimeField(Batch(feed)[eidx - 1])
  /\ batchSent # <<>>

\* C7: every entry that is sent has, at the moment of its send, a timestamp
\* strictly greater than the watermark stored for its source at that moment.
C7_SentIsNewerThanStored ==
  [][\A i \in SourceIds : \A k \in EntryIds :
       sentCount'[i][k] > sentCount[i][k] => TimeOf(k) > Watermark(UrlOf(i))]_vars

\* C8: a failure while handling one source (fetch error, channel lookup that
\* raises, send that raises) never prevents a later source from being fetched
\* and processed in the same run: when the run returns, every source has had
\* its turn.
C8_FailureDoesNotStopRun ==
  (pc = "idle" /\ cycle > 0 /\ config \in {"ok", "badbot"})
     => \A i \in SourceIds : outcome[i] # "pending"

\* a run has returned in which the first source's send raised and the last
\* source was processed and sent an entry
C8_Witness ==
  /\ pc = "idle"
  /\ outcome[1] = "send_failed"
  /\ outcome[NumSources] = "processed"
  /\ runSends[NumSources] > 0

\* C9: a source whose category has no channel, or whose channel cannot be
\* resolved, causes no send and no watermark change for that source in that
\* cycle, and its step changes nothing for the other sources: the loop goes
\* straight to the next source.
C9_SkippedSourceIsNoOp ==
  [][\A i \in SourceIds :
       /\ (Sources[i].category \notin DOMAIN category_channels \/ outcome'[i] = "unresolved")
            => /\ sentCount'[i] = sentCount[i]
               /\ runSends'[i] = 0
               /\ Watermark(UrlOf(i))' = Watermark(UrlOf(i))
       /\ (outcome[i] = "pending" /\ outcome'[i] \in Skipped)
            => /\ UNCHANGED <<last_post_times, sentCount, runSends>>
               /\ pc' = NextSource(i).pc
               /\ idx' = NextSource(i).idx]_vars

\* a run has returned in which one source had an unresolved channel, one had
\* no channel for its category, and another one was processed and sent an entry
C9_Witness ==
  /\ pc = "idle"
  /\ outcome[1] = "unresolved"
  /\ outcome[2] = "no_route"
  /\ outcome[3] = "processed"
  /\ runSends[3] > 0

\* C10: at most one run of check_feeds is in flight at any time, even when a
\* run lasts longer than the interval.
C10_SingleRunInFlight == inflight <= 1

\* the interval has elapsed while a run is still sending entries
C10_Witness == inflight = 1 /\ due /\ pc = "entries" /\ batchSent # <<>>

\* nothing has been fetched, sent or stored
NothingDone ==
  /\ last_post_times = <<>>
  /\ \A i \in SourceIds :
       /\ outcome[i] = "pending"
       /\ runSends[i] = 0
       /\ \A k \in SentIds : sentCount[i][k] = 0

\* C11 (as stated): when load_config fails, the system halts before the
\* scheduler starts: the check_feeds loop is never started and no run is
\* ever triggered.
C11_LoadFailureHaltsStartup ==
  loadOutcome = "raises" => (~started /\ cycle = 0)

\* C11 (amended): when load_config fails, the loop is still started and its
\* runs are triggered, but every run returns at once: no source is fetched,
\* nothing is sent and no watermark is written.
C11_LoadFailureRunsAreEmpty ==
  loadOutcome = "raises" => (pc = "idle" /\ inflight = 0 /\ NothingDone)

\* load_config failed and a run of check_feeds has been triggered
C11_Witness == loadOutcome = "raises" /\ started /\ cycle > 0

\* C12: no failure inside a run (fetch error, routing error, send error,
\* malformed configuration) ends the scheduling loop: every run that has begun
\* returns to idle, and while runs remain to be started a further run is
\* eventually started.
C12_LoopSurvivesFailures ==
  /\ (pc # "idle") ~> (pc = "idle" /\ inflight = 0)
  /\ \A n \in 0..(MaxCycles - 1) : (started /\ cycle = n) ~> (cycle = n + 1)

\* every run so far failed on the malformed source list, and a further run
\* was started after the first failure
C12_Witness == config = "badsources" /\ cycle >= 2 /\ pc = "idle"

\* C13: a source at the never-dispatched watermark whose fetch returns three
\* entries at times 1, 2, 3, in any feed order, all sends succeeding: exactly
\* three notifications, in ascending timestamp order, and final watermark 3.
C13_ThreeNewEntriesAscending ==
  (BatchOver /\ outcome[idx] = "processed" /\ last_post_time = DT_MIN)
     => (batchSent = <<1, 2, 3>> /\ Watermark(UrlOf(idx)) = 3)

\* C14: a source whose watermark is 2 and whose fetch returns entries at times
\* 1, 2, 3: exactly one notification, the entry at time 3, and the watermark
\* becomes 3.
C14_OnlyNewerEntrySent ==
  (BatchOver /\ outcome[idx] = "processed" /\ last_post_time = 2)
     => (batchSent = <<3>> /\ runSends[idx] = 1 /\ Watermark(UrlOf(idx)) = 3)

\* a batch entered at watermark 2 has returned after sending one entry
C14_Witness ==
  /\ BatchOver
  /\ outcome[idx] = "processed"
  /\ last_post_time = 2
  /\ Len(feed) = 3
  /\ runSends[idx] = 1

\* the send of the entry at time 3 has failed in a batch entered at watermark 2
FailedOnlyNewEntry ==
  BatchOver /\ outcome[idx] = "send_failed" /\ last_post_time = 2 /\ failedEntry = 3

\* C15: when the only new entry of a source (time 3, watermark 2) fails to
\* send, the watermark of the source is still 2 after the batch, and the
\* failing step changes no watermark and no dispatch of any source: the run
\* goes on to the sleep and the next source as after any batch.
C15_FailedSendLeavesStateAlone ==
  [][/\ FailedOnlyNewEntry' => (Watermark(UrlOf(idx))' = 2 /\ batchSent' = <<>>)
     /\ (failedEntry = 0 /\ failedEntry' # 0)
          => /\ UNCHANGED <<last_post_times, sentCount, runSends>>
             /\ pc' = "sleep"
             /\ idx' = idx]_vars

\* the only new entry of the first source has failed to send
C15_Witness == FailedOnlyNewEntry /\ idx = 1 /\ Watermark(UrlOf(1)) = 2

\* C16: the fetch of the next source never starts unless a pacing sleep has
\* occurred after the handling of the previous source, also when that source
\* was skipped.
C16_SleepBetweenSources ==
  [][(pc' = "fetch" /\ idx' > 1) => pc = "sleep"]_vars

\* the entries the for loop of the batch has examined so far
Examined == {feed[j] : j \in 1..(eidx - 1)}

NotExamined == {feed[j] : j \in eidx..Len(feed)}

\* C17: the entries examined in a batch are the 5 with the most recent
\* timestamps among those fetched, in any feed order: at most 5 sends, and no
\* newer entry is left out in favour of an older one.
C17_NewestFiveExamined ==
  (BatchOver /\ outcome[idx] = "processed")
     => /\ runSends[idx] <= SliceLen
        /\ \A a \in Examined : \A b \in NotExamined :
             a.published_parsed > b.published_parsed

\* the times found in the time fields of an entry
FieldTimes(e) ==
  (IF e.has_published THEN {e.published_parsed} ELSE {})
     \cup (IF e.has_updated THEN {e.updated_parsed} ELSE {})

\* C18: the stored watermark of a source is either absent or the timestamp,
\* taken from the entry's own time fields, of an entry that was sent for that
\* source; the current time never gets there.
C18_WatermarkIsASentTimestamp ==
  \A i \in SourceIds :
     UrlOf(i) \in DOMAIN last_post_times
        => \E k \in SentIds :
             /\ sentCount[i][k] > 0
             /\ last_post_times[UrlOf(i)] # None
             /\ last_post_times[UrlOf(i)] \in FieldTimes(EntryOf(k))

\* a batch containing an entry without timestamp has returned with a
\* watermark stored
C18_Witness ==
  /\ BatchOver
  /\ UrlOf(idx) \in DOMAIN last_post_times
  /\ \E j \in 1..Len(feed) : NoTimeField(feed[j])

\* C19: when process_feed_entries returns, the watermark of the source is at
\* least what it was on entry, and greater if an entry was sent, for any feed
\* order and any send failure.
C19_WatermarkNotBelowEntryValue ==
  BatchOver
     => /\ Watermark(UrlOf(idx)) >= last_post_time
        /\ (batchSent # <<>> => Watermark(UrlOf(idx)) > last_post_time)

\* a batch entered with a watermark already stored has sent an entry
C19_Witness == BatchOver /\ last_post_time > DT_MIN /\ batchSent # <<>>

\* where the batch stands when a send has raised
StoppedAtFailure ==
  (BatchOver /\ outcome[idx] = "send_failed")
     => /\ feed[eidx].id = failedEntry
        /\ \A j \in 1..Len(batchSent) :
             \E p \in 1..(eidx - 1) : feed[p].id = batchSent[j]
        /\ Watermark(UrlOf(idx)) =
             IF batchSent = <<>> THEN last_post_time
             ELSE TimeOf(batchSent[Len(batchSent)])

\* C20: when a send raises, the batch stops: no entry after the failed one in
\* feed order is sent for that source in that cycle, and the watermark stays
\* at the timestamp of the last entry sent before the failure, or at its value
\* on entry if none was sent.
C20_BatchStopsAtFailedSend ==
  [][/\ StoppedAtFailure'
     /\ \A i \in SourceIds :
          outcome'[i] = "send_failed"
             => /\ runSends'[i] = runSends[i]
                /\ sentCount'[i] = sentCount[i]
                /\ Watermark(UrlOf(i))' = Watermark(UrlOf(i))]_vars

\* a send has raised while a new entry was still to come in the batch
C20_Witness ==
  /\ BatchOver
  /\ outcome[idx] = "send_failed"
  /\ eidx < Len(feed)
  /\ IsNew(parse_entry_time(feed[eidx + 1]), last_post_time)

====
